---- MODULE Spec2Model ----
(***************************************************************************)
(* Model of scraper.py: the page classes BasePage / AdPage / ResultsPage / *)
(* ModelSearch and the key/value cleaner AdPage._clean_key_value.          *)
(*                                                                         *)
(* Python values are encoded as follows.                                   *)
(*   - None / a present value x  :  <<>> / <<x>>                           *)
(*   - a str that the code inspects character by character (cell texts,   *)
(*     the text of the last-page element) : a sequence of one-character    *)
(*     strings; NBSP stands for '\xa0'                                     *)
(*   - a str that the code only copies or formats (url, brand, model,      *)
(*     title, feature labels) : a TLA+ string                              *)
(***************************************************************************)
EXTENDS Integers, Sequences, FiniteSets, TLC

VARIABLES
    obj,      \* the page object: None before it is constructed, then <<object>>
    gen,      \* the generator the caller holds: None or <<generator>>
    call,     \* the caller's last call: [op, exc], exc = "" when it returned
    now,      \* the clock read by datetime.today()
    key,      \* _clean_key_value: the `key` argument
    value,    \* _clean_key_value: the `value` argument
    result,   \* _clean_key_value: None before the call, <<outcome>> after it
    pair,     \* two sibling page objects, the class attributes and the last call
    crawl     \* the crawl loop: the site, the loop's position and its records

pageVars == <<obj, gen, call, now>>
cleanVars == <<key, value, result>>
auxVars == <<pair, crawl>>
vars == <<obj, gen, call, now, key, value, result, pair, crawl>>

None == <<>>
Some(x) == <<x>>

(***************************************************************************)
(* Characters                                                              *)
(***************************************************************************)
NBSP == "nbsp"
Digits == {"1", "2"}
Whitespace == {" ", NBSP}
Alphabet == Digits \cup Whitespace \cup {"/", "k"}

IsDigit(c) == c \in Digits
IsSpace(c) == c \in Whitespace

DigitVal(c) == IF c = "1" THEN 1 ELSE 2

\* Longest length of a raw value / label handed to _clean_key_value
MaxLen == 4

RECURSIVE SeqsUpTo(_, _)
SeqsUpTo(S, n) ==
    IF n = 0 THEN {<<>>}
    ELSE LET shorter == SeqsUpTo(S, n - 1)
         IN  shorter \cup {Append(s, c) : s \in {t \in shorter : Len(t) = n - 1}, c \in S}

(***************************************************************************)
(* str methods and int()                                                   *)
(***************************************************************************)
\* str.strip(): drop leading and trailing whitespace
RECURSIVE LStrip(_)
LStrip(s) == IF s # <<>> /\ IsSpace(Head(s)) THEN LStrip(Tail(s)) ELSE s

RECURSIVE RStrip(_)
RStrip(s) ==
    IF s # <<>> /\ IsSpace(s[Len(s)]) THEN RStrip(SubSeq(s, 1, Len(s) - 1)) ELSE s

Strip(s) == RStrip(LStrip(s))

\* Mutant of RemoveSpaces: re.sub(r'\s', '', s) on a byte pattern, which leaves '\xa0'
RemoveAsciiSpaces(s) == SelectSeq(s, LAMBDA c : c # " ")

\* re.sub(r'\s|\xa0', '', s)
RemoveSpaces(s) == SelectSeq(s, LAMBDA c : ~IsSpace(c))

\* str.replace('\xa0', ' ')
ReplaceNbsp(s) == [i \in 1..Len(s) |-> IF s[i] = NBSP THEN " " ELSE s[i]]

\* key[:-1]
DropLast(s) == IF s = <<>> THEN <<>> ELSE SubSeq(s, 1, Len(s) - 1)

\* int(s): surrounding whitespace is ignored, an optional sign, then one or
\* more digits; anything else is a ValueError.
RECURSIVE DigitsToInt(_)
DigitsToInt(s) ==
    IF s = <<>> THEN 0 ELSE 10 * DigitsToInt(SubSeq(s, 1, Len(s) - 1)) + DigitVal(s[Len(s)])

AllDigits(s) == s # <<>> /\ \A i \in 1..Len(s) : IsDigit(s[i])

PyInt(s) ==
    LET t == Strip(s)
    IN  IF AllDigits(t) THEN [ok |-> TRUE, num |-> DigitsToInt(t)]
        ELSE IF t # <<>> /\ t[1] = "-" /\ AllDigits(Tail(t))
             THEN [ok |-> TRUE, num |-> 0 - DigitsToInt(Tail(t))]
             ELSE [ok |-> FALSE, num |-> 0]

\* The pattern of _clean_key_value, one part per line as in the source
\* (re.VERBOSE): a lazy prefix without '/', an optional space, group 1 = one or
\* more groups of an optional space and 1 to 3 digits, an optional space,
\* group 2 = characters that are neither digit nor space, end of string.
\* the prefix: no '/'
NoSlash(s) == \A i \in 1..Len(s) : s[i] # "/"

\* [\s\xa0]?
OptSpace(s) == s = <<>> \/ (Len(s) = 1 /\ IsSpace(s[1]))

\* Mutant of DigitGroups: (?:[0-9]{1,3})+, no separator inside the number
DigitGroupsNoSep(s) == s # <<>> /\ \A i \in 1..Len(s) : IsDigit(s[i])

\* (?:[\s\xa0]?[0-9]{1,3})+
RECURSIVE DigitGroups(_)
DigitGroups(s) ==
    \E w \in 0..1, d \in 1..3 :
        /\ w + d <= Len(s)
        /\ w = 1 => IsSpace(s[1])
        /\ \A i \in (w + 1)..(w + d) : IsDigit(s[i])
        /\ \/ w + d = Len(s)
           \/ DigitGroups(SubSeq(s, w + d + 1, Len(s)))

\* group 2: neither digit nor space
UnitChars(s) == \A i \in 1..Len(s) : ~IsDigit(s[i]) /\ ~IsSpace(s[i])

\* The ways the five parts of the pattern can split s: part boundaries after
\* positions a <= b <= c <= d.
Splits(s) ==
    {sp \in (0..Len(s)) \X (0..Len(s)) \X (0..Len(s)) \X (0..Len(s)) :
        /\ sp[1] <= sp[2] /\ sp[2] < sp[3] /\ sp[3] <= sp[4]
        /\ sp[2] - sp[1] <= 1 /\ sp[4] - sp[3] <= 1
        /\ NoSlash(SubSeq(s, 1, sp[1]))
        /\ OptSpace(SubSeq(s, sp[1] + 1, sp[2]))
        /\ DigitGroups(SubSeq(s, sp[2] + 1, sp[3]))
        /\ OptSpace(SubSeq(s, sp[3] + 1, sp[4]))
        /\ UnitChars(SubSeq(s, sp[4] + 1, Len(s)))}

\* Mutant of Before: a greedy prefix, [^/]* for [^/]*?
BeforeGreedy(p, q) ==
    \/ p[1] > q[1]
    \/ p[1] = q[1] /\ p[2] > q[2]
    \/ p[1] = q[1] /\ p[2] = q[2] /\ p[3] > q[3]
    \/ p[1] = q[1] /\ p[2] = q[2] /\ p[3] = q[3] /\ p[4] >= q[4]

\* Backtracking order: the lazy prefix is tried shortest first, every greedy
\* part longest first.
Before(p, q) ==
    \/ p[1] < q[1]
    \/ p[1] = q[1] /\ p[2] > q[2]
    \/ p[1] = q[1] /\ p[2] = q[2] /\ p[3] > q[3]
    \/ p[1] = q[1] /\ p[2] = q[2] /\ p[3] = q[3] /\ p[4] >= q[4]

\* re.match: None, or the groups of the first split in backtracking order
ReMatch(s) ==
    LET all == Splits(s)
    IN  IF all = {} THEN None
        ELSE LET sp == CHOOSE p \in all : \A q \in all : Before(p, q)
             IN  Some([group1 |-> SubSeq(s, sp[2] + 1, sp[3]),
                       group2 |-> SubSeq(s, sp[4] + 1, Len(s))])

(***************************************************************************)
(* AdPage._clean_key_value                                                 *)
(* The outcome is [exc, key, isInt, num, str]: exc is "" on a normal       *)
(* return; the returned value is the int num when isInt and the str        *)
(* otherwise.                                                              *)
(***************************************************************************)
Returned(k, isInt, n, s) == [exc |-> "", key |-> k, isInt |-> isInt, num |-> n, str |-> s]
Raised(e) == [exc |-> e, key |-> <<>>, isInt |-> FALSE, num |-> 0, str |-> <<>>]

_clean_key_value(k, v) ==
    LET new_key     == DropLast(k)
        value_match == ReMatch(v)
    IN  IF value_match # None
        THEN LET extracted_value == Strip(value_match[1].group1)
                 new_value       == PyInt(RemoveSpaces(extracted_value))
                 unit            == value_match[1].group2
             IN  IF ~new_value.ok THEN Raised("ValueError")
                 ELSE IF unit # <<>>
                      THEN Returned(new_key \o <<" ", "(">> \o unit \o <<")">>,
                                    TRUE, new_value.num, <<>>)
                      ELSE Returned(new_key, TRUE, new_value.num, <<>>)
        ELSE Returned(new_key, FALSE, 0, ReplaceNbsp(v))

(***************************************************************************)
(* Markup.  A document is what BeautifulSoup finds in it:                   *)
(*   title       div.adatlap-cim: None or its text                          *)
(*   table       table.hirdetesadatok: None or the texts of its td cells    *)
(*   features    div.felszereltseg: None or the texts of its li items       *)
(*   description div.leiras: None, or <<None>> when the block has no inner  *)
(*               div, or <<<<text>>>>                                        *)
(*   other       div.egyebinformacio: None or the texts of its li items     *)
(*   containers  the div.cim-kontener elements in document order: for each, *)
(*               None or the href of its first anchor                       *)
(*   last        li.last: None or its text                                  *)
(***************************************************************************)
Doc(title, table, features, description, other, containers, last) ==
    [title |-> title, table |-> table, features |-> features,
     description |-> description, other |-> other,
     containers |-> containers, last |-> last]

EmptyDoc == Doc(None, None, None, None, None, <<>>, None)

AdComplete ==
    Doc(Some(<<" ", "k">>),
        Some(<< <<"k", ":">>, <<"1", NBSP, "2", " ", "k">>,
                <<"k", ":">>, <<"k", NBSP, "k", " ">> >>),
        Some(<< <<"k">>, <<"k", "k">>, <<"k", " ">> >>),
        Some(Some(<<"k", " ">>)),
        Some(<< <<"k">> >>),
        <<>>, None)
AdBare    == Doc(Some(<<"k">>), Some(<<>>), None, None, None, <<>>, None)
AdNoTable == Doc(Some(<<"k">>), None, None, None, None, <<>>, None)
AdOdd     ==
    Doc(Some(<<"k">>), Some(<< <<"k", ":">>, <<"1">>, <<"k", "k", ":">> >>),
        None, None, None, <<>>, None)
AdNoDiv   == Doc(Some(<<"k">>), Some(<<>>), None, Some(None), None, <<>>, None)

ResultsTwo  == Doc(None, None, None, None, None, <<Some("/ad/1"), Some("/ad/2")>>, None)
ResultsBad  == Doc(None, None, None, None, None, <<Some("/ad/1"), None>>, None)

SearchTwo   == Doc(None, None, None, None, None, <<>>, Some(<<" ", "2">>))
SearchNeg   == Doc(None, None, None, None, None, <<>>, Some(<<"-", "1">>))
SearchText  == Doc(None, None, None, None, None, <<>>, Some(<<"k">>))

Docs(cls) ==
    CASE cls = "AdPage"      -> {AdComplete, AdBare, AdNoTable, AdOdd, AdNoDiv, EmptyDoc}
      [] cls = "ResultsPage" -> {ResultsTwo, ResultsBad, EmptyDoc}
      [] cls = "ModelSearch" -> {SearchTwo, SearchNeg, SearchText, EmptyDoc}

(***************************************************************************)
(* requests.get: the outcomes of one GET.  A connection failure raises out *)
(* of requests.get; otherwise there is a response with a status and a body.*)
(***************************************************************************)
Statuses == {200, 304, 404}

Responses(cls) ==
    {[failed |-> TRUE, status_code |-> 0, text |-> EmptyDoc]}
    \cup {[failed |-> FALSE, status_code |-> 404, text |-> EmptyDoc]}
    \cup {[failed |-> FALSE, status_code |-> 304, text |-> EmptyDoc]}
    \cup {[failed |-> FALSE, status_code |-> 200, text |-> d] : d \in Docs(cls)}

\* Response.raise_for_status raises HTTPError for 4xx and 5xx only
RaisesForStatus(code) == 400 <= code /\ code < 600

(***************************************************************************)
(* Page objects.  Beside the attributes of the Python object, the record   *)
(* keeps its history:                                                      *)
(*   url_arg  the url argument its constructor was given                   *)
(*   fetches  the calls of requests.get made for it                        *)
(*   parses   the times its markup was handed to BeautifulSoup             *)
(*   direct   the caller has called download() or parse() on it itself     *)
(*   raised   a call on it has raised an exception                         *)
(***************************************************************************)
BASE_URL == "https://www.hasznaltauto.hu/szemelyauto"

\* Mutant of BasePageInit: the constructor fetches the page
BasePageInitEager(cls, url, brand, model) ==
    [cls |-> cls, url |-> url, brand |-> brand, model |-> model,
     html |-> None, status |-> Some(404),
     data |-> None, links |-> None, page_count |-> None,
     url_arg |-> Some(url), fetches |-> 1, parses |-> 0,
     direct |-> FALSE, raised |-> FALSE]

BasePageInit(cls, url, brand, model) ==
    [cls |-> cls, url |-> url, brand |-> brand, model |-> model,
     html |-> None, status |-> None,
     data |-> None, links |-> None, page_count |-> None,
     url_arg |-> Some(url), fetches |-> 0, parses |-> 0,
     direct |-> FALSE, raised |-> FALSE]

\* Mutant of AdPageInit: the ad is constructed without the brand and model
AdPageInitUntagged(url, brand, model) == BasePageInit("AdPage", url, "", "")

AdPageInit(url, brand, model) == BasePageInit("AdPage", url, brand, model)
ResultsPageInit(url, brand, model) == BasePageInit("ResultsPage", url, brand, model)

\* url is None or <<explicit url>>
ModelSearchInit(url, brand, model) ==
    [BasePageInit("ModelSearch",
                  IF url = None THEN BASE_URL \o "/" \o brand \o "/" \o model ELSE url[1],
                  brand, model)
     EXCEPT !.url_arg = url]

\* The outcome of a method call: the object after it, and the exception that
\* left it ("" when it returned).
Outcome(o, exc) == [obj |-> o, exc |-> exc]

\* BasePage.download, r the outcome of requests.get
download(o, r) ==
    LET o1 == [o EXCEPT !.fetches = @ + 1]
    IN  IF r.failed THEN Outcome(o1, "ConnectionError")
        ELSE LET o2 == [o1 EXCEPT !.status = Some(r.status_code)]
             IN  IF RaisesForStatus(r.status_code) THEN Outcome(o2, "")
                 ELSE Outcome([o2 EXCEPT !.html = Some(r.text)], "")

\* `if self._html is None: self.download()`
EnsureHtml(o, r) == IF o.html = None THEN download(o, r) ELSE Outcome(o, "")

(***************************************************************************)
(* dict: a sequence of entries in insertion order; assigning to a key that *)
(* is present replaces its value in place.                                 *)
(***************************************************************************)
DictSet(d, e) ==
    IF \E i \in 1..Len(d) : d[i].key = e.key
    THEN [i \in 1..Len(d) |-> IF d[i].key = e.key THEN e ELSE d[i]]
    ELSE Append(d, e)

Entry(kv) == [key |-> kv.key, isInt |-> kv.isInt, num |-> kv.num, str |-> kv.str]
Flag(k) == [key |-> k, isInt |-> FALSE, num |-> 0, str |-> <<>>]

\* `for cell_index in range(0, len(cells), 2)`: i is the 0-based cell_index
RECURSIVE CellLoop(_, _, _)
CellLoop(cells, i, details) ==
    IF i >= Len(cells) THEN [exc |-> "", details |-> details]
    ELSE IF i + 1 >= Len(cells) THEN [exc |-> "IndexError", details |-> details]
         ELSE LET kv == _clean_key_value(Strip(cells[i + 1]), Strip(cells[i + 2]))
              IN  IF kv.exc # "" THEN [exc |-> kv.exc, details |-> details]
                  ELSE CellLoop(cells, i + 2, DictSet(details, Entry(kv)))

\* `for feature in block.find_all('li'): d[feature.text.strip()] = True`
RECURSIVE ItemLoop(_, _)
ItemLoop(items, d) ==
    IF items = <<>> THEN d
    ELSE ItemLoop(Tail(items), DictSet(d, Flag(Strip(Head(items)))))

\* The body of AdPage.parse under `if self._html is not None`; t is
\* datetime.today()
AdParseMarkup(o, t) ==
    LET soup == o.html[1]
        p    == [o EXCEPT !.parses = @ + 1]
    IN  IF soup.title = None \/ soup.table = None THEN Outcome(p, "AttributeError")
        ELSE LET loop == CellLoop(soup.table[1], 0, <<>>)
             IN  IF loop.exc # "" THEN Outcome(p, loop.exc)
                 ELSE IF soup.description # None /\ soup.description[1] = None
                      THEN Outcome(p, "AttributeError")
                      ELSE Outcome(
                        [p EXCEPT !.data = Some(
                          [title       |-> Strip(soup.title[1]),
                           details     |-> loop.details,
                           features    |-> IF soup.features # None
                                           THEN ItemLoop(soup.features[1], <<>>)
                                           ELSE <<>>,
                           description |-> IF soup.description # None
                                           THEN Some(Strip(soup.description[1][1]))
                                           ELSE None,
                           other       |-> IF soup.other # None
                                           THEN ItemLoop(soup.other[1], <<>>)
                                           ELSE <<>>,
                           brand       |-> o.brand,
                           model       |-> o.model,
                           url         |-> o.url,
                           scraped     |-> t])], "")

\* Mutant of AdParse: the record is stored as soon as the title is read
AdParseEarlyStore(o, r, t) ==
    LET d   == EnsureHtml(o, r)
        out == IF d.exc # "" \/ d.obj.html = None THEN d ELSE AdParseMarkup(d.obj, t)
    IN  IF out.exc # "" /\ out.obj.html # None /\ out.obj.html[1].title # None
        THEN Outcome([out.obj EXCEPT !.data = Some([title |-> Strip(out.obj.html[1].title[1])])],
                     out.exc)
        ELSE out

\* Mutant of AdParse: a second parse extends the features of the stored record
AdParseAccumulating(o, r, t) ==
    LET d   == EnsureHtml(o, r)
        out == IF d.exc # "" \/ d.obj.html = None THEN d ELSE AdParseMarkup(d.obj, t)
    IN  IF out.exc = "" /\ o.data # None /\ out.obj.data # None
        THEN Outcome([out.obj EXCEPT !.data = Some([@[1] EXCEPT
                         !.features = o.data[1].features \o @])], "")
        ELSE out

\* Mutant of AdParse: the features block is read without the `if feature_set:`
\* guard
AdParseUnguarded(o, r, t) ==
    LET d == EnsureHtml(o, r)
    IN  IF d.exc # "" \/ d.obj.html = None THEN d
        ELSE IF d.obj.html[1].features = None
             THEN Outcome([d.obj EXCEPT !.parses = @ + 1], "AttributeError")
             ELSE AdParseMarkup(d.obj, t)

\* AdPage.parse
AdParse(o, r, t) ==
    LET d == EnsureHtml(o, r)
    IN  IF d.exc # "" \/ d.obj.html = None THEN d ELSE AdParseMarkup(d.obj, t)

\* Mutant of ResultsParseMarkup: containers without an anchor are skipped
ResultsParseSkipping(o) ==
    Outcome([o EXCEPT !.parses = @ + 1,
                      !.links = Some(SelectSeq(o.html[1].containers, LAMBDA c : c # None))],
            "")

\* The body of ResultsPage.parse under `if self._html is not None`
ResultsParseMarkup(o) ==
    LET result_items == o.html[1].containers
        p            == [o EXCEPT !.parses = @ + 1]
    IN  IF \E i \in 1..Len(result_items) : result_items[i] = None
        THEN Outcome(p, "AttributeError")
        ELSE Outcome([p EXCEPT !.links =
                        Some([i \in 1..Len(result_items) |-> result_items[i][1]])], "")

\* ResultsPage.parse
ResultsParse(o, r) ==
    LET d == EnsureHtml(o, r)
    IN  IF d.exc # "" \/ d.obj.html = None THEN d ELSE ResultsParseMarkup(d.obj)

\* The body of ModelSearch.parse under `if self._html is not None`:
\* AttributeError and TypeError are caught, any other exception propagates
SearchParseMarkup(o) ==
    LET soup == o.html[1]
        p    == [o EXCEPT !.parses = @ + 1]
    IN  IF soup.last = None THEN Outcome(p, "")
        ELSE LET last_page == PyInt(soup.last[1])
             IN  IF ~last_page.ok THEN Outcome(p, "ValueError")
                 ELSE Outcome([p EXCEPT !.page_count = Some(last_page.num)], "")

\* ModelSearch.parse
SearchParse(o, r) ==
    LET d == EnsureHtml(o, r)
    IN  IF d.exc # "" \/ d.obj.html = None THEN d ELSE SearchParseMarkup(d.obj)

\* obj.parse() for the class of the object
parse(o, r, t) ==
    CASE o.cls = "AdPage"      -> AdParse(o, r, t)
      [] o.cls = "ResultsPage" -> ResultsParse(o, r)
      [] o.cls = "ModelSearch" -> SearchParse(o, r)

\* AdPage.data; the value returned is the outcome's obj.data
data(o, r, t) == IF o.data = None THEN AdParse(o, r, t) ELSE Outcome(o, "")

\* ModelSearch.page_count; the value returned is the outcome's obj.page_count
page_count(o, r) == IF o.page_count = None THEN SearchParse(o, r) ELSE Outcome(o, "")

(***************************************************************************)
(* Generators.  `pages` and `ads` are generator functions behind a         *)
(* property: reading the property makes a new generator whose body has not *)
(* started; each next() runs the body to its next yield or to its end.     *)
(*   state   "created" | "suspended" (at a yield) | "done"                 *)
(*   range   pages: the range(1, page_count + 1) being iterated            *)
(*   list    ads: the self._links list being iterated                      *)
(*   i       how many elements of range / list the loop has taken          *)
(*   yielded the objects yielded so far, as constructed                    *)
(***************************************************************************)
NewGenerator(kind) ==
    [kind |-> kind, state |-> "created", range |-> <<>>, list |-> <<>>, i |-> 0,
     yielded |-> <<>>, prev |-> None]

GenOutcome(o, g, exc) == [obj |-> o, gen |-> g, exc |-> exc]

Finished(o, g, exc) == GenOutcome(o, [g EXCEPT !.state = "done"], exc)

\* Mutant of Range1: range(0, stop)
Range0(stop) == [n \in 1..stop |-> n - 1]

\* range(1, stop) as the sequence of its elements
Range1(stop) == [n \in 1..(stop - 1) |-> n]

\* One turn of `for page in range(...)`: yield the next ResultsPage or end
PagesLoop(o, g) ==
    IF g.i < Len(g.range)
    THEN LET page == g.range[g.i + 1]
             url  == o.url \o "/page" \o ToString(page)
         IN  GenOutcome(o, [g EXCEPT !.state = "suspended", !.i = @ + 1,
                                     !.yielded = Append(@, ResultsPageInit(url, o.brand, o.model))],
                        "")
    ELSE Finished(o, g, "StopIteration")

\* Mutant of AdsLoop: every AdPage gets the first link
AdsLoopFirstLink(o, g) ==
    IF g.i < Len(g.list)
    THEN GenOutcome(o, [g EXCEPT !.state = "suspended", !.i = @ + 1,
                                 !.yielded = Append(@, AdPageInit(g.list[1], o.brand, o.model))],
                    "")
    ELSE Finished(o, g, "StopIteration")

\* One turn of `for url in self._links`: yield the next AdPage or end
AdsLoop(o, g) ==
    IF g.i < Len(g.list)
    THEN LET url == g.list[g.i + 1]
         IN  GenOutcome(o, [g EXCEPT !.state = "suspended", !.i = @ + 1,
                                     !.yielded = Append(@, AdPageInit(url, o.brand, o.model))],
                        "")
    ELSE Finished(o, g, "StopIteration")

\* next() on a generator made by ModelSearch.pages
PagesNext(o, g, r) ==
    IF g.state = "done" THEN GenOutcome(o, g, "StopIteration")
    ELSE IF g.state = "suspended" THEN PagesLoop(o, g)
    ELSE LET first == page_count(o, r)
         IN  IF first.exc # "" THEN Finished(first.obj, g, first.exc)
             ELSE IF first.obj.page_count = None
                  THEN Finished(first.obj, g, "StopIteration")
                  ELSE LET second == page_count(first.obj, r)
                       IN  PagesLoop(second.obj,
                                     [g EXCEPT !.range = Range1(second.obj.page_count[1] + 1)])

\* next() on a generator made by ResultsPage.ads
\* Mutant of AdsNext: the links are parsed again by every generator
AdsNextNoMemo(o, g, r) ==
    IF g.state = "done" THEN GenOutcome(o, g, "StopIteration")
    ELSE IF g.state = "suspended" THEN AdsLoop(o, g)
    ELSE LET p == ResultsParse(o, r)
         IN  IF p.exc # "" THEN Finished(p.obj, g, p.exc)
             ELSE IF p.obj.links # None
                  THEN AdsLoop(p.obj, [g EXCEPT !.list = p.obj.links[1]])
                  ELSE Finished(p.obj, g, "StopIteration")

AdsNext(o, g, r) ==
    IF g.state = "done" THEN GenOutcome(o, g, "StopIteration")
    ELSE IF g.state = "suspended" THEN AdsLoop(o, g)
    ELSE LET p == IF o.links = None THEN ResultsParse(o, r) ELSE Outcome(o, "")
         IN  IF p.exc # "" THEN Finished(p.obj, g, p.exc)
             ELSE IF p.obj.links # None
                  THEN AdsLoop(p.obj, [g EXCEPT !.list = p.obj.links[1]])
                  ELSE Finished(p.obj, g, "StopIteration")

(***************************************************************************)
(* Specification of the cleaner alone: any label and raw value over the    *)
(* alphabet, then one call.                                                *)
(***************************************************************************)
Labels == {<<>>, <<":">>, <<"k", ":">>}
Values == SeqsUpTo(Alphabet, MaxLen)

InitClean ==
    /\ key \in Labels
    /\ value \in Values
    /\ result = None
    /\ obj = None /\ gen = None /\ call = [op |-> "", exc |-> ""] /\ now = 0
    /\ pair = None /\ crawl = None

CallClean ==
    /\ result = None
    /\ result' = Some(_clean_key_value(key, value))
    /\ UNCHANGED <<key, value>>
    /\ UNCHANGED <<pageVars, auxVars>>

NextClean == CallClean

SpecClean == InitClean /\ [][NextClean]_vars

(***************************************************************************)
(* Specification of one page object and its caller.  The caller constructs *)
(* a page, then calls download(), parse() and the accessors in any order,  *)
(* and iterates the generator it last obtained.  Every GET may end in any  *)
(* of Responses; the clock may advance between calls.                      *)
(***************************************************************************)
\* A call is made only while the object's counters are below these
MaxFetches == 3
MaxParses == 2
\* The clock stops here
MaxClock == 1

Brands == {"bmw", "audi"}
Models == {"x5"}
SearchUrls == {None, Some("http://host/search")}

Init ==
    /\ obj = None
    /\ gen = None
    /\ call = [op |-> "", exc |-> ""]
    /\ now = 0
    /\ key = <<>> /\ value = <<>> /\ result = None
    /\ pair = None /\ crawl = None

Live == obj # None /\ obj[1].fetches < MaxFetches /\ obj[1].parses < MaxParses

IsError(exc) == exc \notin {"", "StopIteration"}

\* The object after a call: what the method left, and its history
After(o, exc, direct) ==
    [o EXCEPT !.direct = @ \/ direct, !.raised = @ \/ IsError(exc)]

Called(op, out, direct) ==
    /\ obj' = Some(After(out.obj, out.exc, direct))
    /\ call' = [op |-> op, exc |-> out.exc]

NewModelSearch ==
    /\ obj = None
    /\ \E url \in SearchUrls, brand \in Brands, model \in Models :
          obj' = Some(ModelSearchInit(url, brand, model))
    /\ call' = [op |-> "new", exc |-> ""]
    /\ UNCHANGED <<gen, now>>
    /\ UNCHANGED <<cleanVars, auxVars>>

NewResultsPage ==
    /\ obj = None
    /\ \E brand \in Brands, model \in Models :
          obj' = Some(ResultsPageInit("http://host/results", brand, model))
    /\ call' = [op |-> "new", exc |-> ""]
    /\ UNCHANGED <<gen, now>>
    /\ UNCHANGED <<cleanVars, auxVars>>

NewAdPage ==
    /\ obj = None
    /\ \E brand \in Brands, model \in Models :
          obj' = Some(AdPageInit("http://host/ad", brand, model))
    /\ call' = [op |-> "new", exc |-> ""]
    /\ UNCHANGED <<gen, now>>
    /\ UNCHANGED <<cleanVars, auxVars>>

Download ==
    /\ Live
    /\ \E r \in Responses(obj[1].cls) : Called("download", download(obj[1], r), TRUE)
    /\ UNCHANGED <<gen, now>>
    /\ UNCHANGED <<cleanVars, auxVars>>

Parse ==
    /\ Live
    /\ \E r \in Responses(obj[1].cls) : Called("parse", parse(obj[1], r, now), TRUE)
    /\ UNCHANGED <<gen, now>>
    /\ UNCHANGED <<cleanVars, auxVars>>

Data ==
    /\ Live /\ obj[1].cls = "AdPage"
    /\ \E r \in Responses(obj[1].cls) : Called("data", data(obj[1], r, now), FALSE)
    /\ UNCHANGED <<gen, now>>
    /\ UNCHANGED <<cleanVars, auxVars>>

PageCount ==
    /\ Live /\ obj[1].cls = "ModelSearch"
    /\ \E r \in Responses(obj[1].cls) : Called("page_count", page_count(obj[1], r), FALSE)
    /\ UNCHANGED <<gen, now>>
    /\ UNCHANGED <<cleanVars, auxVars>>

\* Reading the pages / ads property: a new generator each time.  prev keeps
\* what the object's previous generator yielded if that one had ended.
ReadProperty(kind) ==
    [NewGenerator(kind) EXCEPT
        !.prev = IF gen # None /\ gen[1].state = "done" THEN Some(gen[1].yielded) ELSE None]

Pages ==
    /\ obj # None /\ obj[1].cls = "ModelSearch"
    /\ gen' = Some(ReadProperty("pages"))
    /\ call' = [op |-> "pages", exc |-> ""]
    /\ UNCHANGED <<obj, now>>
    /\ UNCHANGED <<cleanVars, auxVars>>

Ads ==
    /\ obj # None /\ obj[1].cls = "ResultsPage"
    /\ gen' = Some(ReadProperty("ads"))
    /\ call' = [op |-> "ads", exc |-> ""]
    /\ UNCHANGED <<obj, now>>
    /\ UNCHANGED <<cleanVars, auxVars>>

GenNext ==
    /\ gen # None
    /\ gen[1].state = "created" => Live
    /\ \E r \in Responses(obj[1].cls) :
          LET out == IF gen[1].kind = "pages" THEN PagesNext(obj[1], gen[1], r)
                     ELSE AdsNext(obj[1], gen[1], r)
          IN  /\ obj' = Some(After(out.obj, out.exc, FALSE))
              /\ gen' = Some(out.gen)
              /\ call' = [op |-> "next", exc |-> out.exc]
    /\ UNCHANGED now
    /\ UNCHANGED <<cleanVars, auxVars>>

Tick ==
    /\ now < MaxClock
    /\ now' = now + 1
    /\ UNCHANGED <<obj, gen, call>>
    /\ UNCHANGED <<cleanVars, auxVars>>

Next ==
    \/ NewModelSearch \/ NewResultsPage \/ NewAdPage
    \/ Download \/ Parse \/ Data \/ PageCount
    \/ Pages \/ Ads \/ GenNext
    \/ Tick

Spec == Init /\ [][Next]_vars

(***************************************************************************)
(* Properties of one page object (specification Spec)                      *)
(***************************************************************************)
Is2xx(code) == 200 <= code /\ code < 300

\* The text of the last-page element does not denote an integer
Indeterminate(doc) == doc.last = None \/ ~PyInt(doc.last[1]).ok

\* C1: over any sequence of accessor invocations (data, ads, page_count,
\* pages) a page object issues at most one HTTP fetch; after a fetch that
\* failed with a non-2xx status the accessor does not fetch again.
C1_AtMostOneFetch ==
    (obj # None /\ ~obj[1].direct /\ ~obj[1].raised) => obj[1].fetches <= 1

\* C2: once the fetch has succeeded, the markup is parsed at most once over any
\* sequence of accessor invocations, also when the parsed result is an empty
\* link list or an indeterminate page count.
C2_AtMostOneParse ==
    (obj # None /\ ~obj[1].direct /\ ~obj[1].raised /\ obj[1].html # None)
        => obj[1].parses <= 1

\* C3: a failed fetch (a non-2xx status or a connection failure) never raises
\* out of download or an accessor, leaves the markup absent and every derived
\* property absent or empty.
C3_FailedFetchDegrades ==
    obj # None =>
        /\ call.exc # "ConnectionError"
        /\ (~obj[1].direct /\ obj[1].status # None /\ ~Is2xx(obj[1].status[1]))
              => /\ obj[1].html = None
                 /\ obj[1].data = None /\ obj[1].links = None /\ obj[1].page_count = None
                 /\ gen # None => gen[1].yielded = <<>>

\* C4: when the search page was fetched but its last-page element is absent or
\* its text is no integer, page_count returns None without raising and pages
\* yields nothing.
C4_IndeterminatePageCount ==
    (/\ obj # None /\ obj[1].cls = "ModelSearch" /\ ~obj[1].direct
     /\ obj[1].html # None /\ Indeterminate(obj[1].html[1]))
        => /\ ~obj[1].raised
           /\ obj[1].page_count = None
           /\ gen # None => gen[1].yielded = <<>>

\* C5: for a ModelSearch whose page count is P, pages yields one ResultsPage
\* per n in 1..P in increasing order, with url '{baseURL}/page{n}' and the
\* search's brand and model, baseURL being the explicit url when one was given
\* and '{BASE_URL}/{brand}/{model}' otherwise; it yields nothing when P < 1 or
\* the page count is indeterminate.  Stated of every next() on the generator:
\* it yields the next page, or ends the sequence after max(P, 0) pages, or (only
\* before anything was yielded and with no page count) ends it with the
\* exception of the fetch or of the parse.
C5_PagesStep ==
    (/\ gen # None /\ gen' # None /\ gen' # gen
     /\ gen'[1].kind = "pages" /\ call'.op = "next" /\ ~obj'[1].direct)
    => LET o    == obj'[1]
           y    == gen'[1].yielded
           n    == Len(y)
           base == IF o.url_arg = None
                   THEN BASE_URL \o "/" \o o.brand \o "/" \o o.model
                   ELSE o.url_arg[1]
       IN  \/ /\ call'.exc = ""
              /\ n = Len(gen[1].yielded) + 1
              /\ SubSeq(y, 1, n - 1) = gen[1].yielded
              /\ o.page_count # None /\ n <= o.page_count[1]
              /\ y[n].cls = "ResultsPage"
              /\ y[n].url = base \o "/page" \o ToString(n)
              /\ y[n].brand = o.brand /\ y[n].model = o.model
           \/ /\ call'.exc = "StopIteration"
              /\ y = gen[1].yielded
              /\ gen'[1].state = "done"
              /\ n = IF o.page_count = None \/ o.page_count[1] < 1 THEN 0
                     ELSE o.page_count[1]
           \/ /\ IsError(call'.exc)
              /\ y = <<>>
              /\ gen'[1].state = "done"
              /\ o.page_count = None

C5_Pages == [][C5_PagesStep]_vars

C5_Witness ==
    /\ gen # None /\ gen[1].kind = "pages" /\ gen[1].state = "done"
    /\ Len(gen[1].yielded) = 2
    /\ obj[1].url_arg = None /\ ~obj[1].direct
    /\ call = [op |-> "next", exc |-> "StopIteration"]

\* C9: when the attribute table of a fetched ad has an odd number of cells,
\* AdPage.parse does not raise: the complete pairs go into details, the
\* trailing label is dropped and the record is produced.
C9_OddTableParses ==
    (/\ obj # None /\ obj[1].cls = "AdPage" /\ obj[1].html # None
     /\ obj[1].html[1].title # None /\ obj[1].html[1].table # None
     /\ Len(obj[1].html[1].table[1]) % 2 = 1
     /\ call.op \in {"parse", "data"})
        => /\ call.exc = ""
           /\ obj[1].data # None
           /\ Len(obj[1].data[1].details) <= Len(obj[1].html[1].table[1]) \div 2

\* A mandatory element is missing: the title block or the attribute table of an
\* ad, the anchor of a result container of a results page
LacksMandatory(cls, doc) ==
    \/ cls = "AdPage" /\ (doc.title = None \/ doc.table = None)
    \/ cls = "ResultsPage" /\ \E i \in 1..Len(doc.containers) : doc.containers[i] = None

\* C10: parsing fetched markup that lacks a mandatory element raises a
\* structural error and stores no derived result: _data and _links are left
\* as they were.  Stated of every call that parses the markup, parse() itself
\* or an accessor.
C10_ParseStep ==
    (/\ obj # None /\ obj'[1].parses > obj[1].parses
     /\ LacksMandatory(obj'[1].cls, obj'[1].html[1]))
    => /\ call'.exc = "AttributeError"
       /\ obj'[1].data = obj[1].data
       /\ obj'[1].links = obj[1].links

C10_MissingMandatory == [][C10_ParseStep]_vars

C10_Witness ==
    /\ obj # None /\ obj[1].cls = "AdPage" /\ obj[1].html # None
    /\ obj[1].html[1].title # None /\ obj[1].html[1].table = None
    /\ call = [op |-> "parse", exc |-> "AttributeError"]
    /\ obj[1].data = None

(***************************************************************************)
(* Properties of _clean_key_value (specification SpecClean)                *)
(***************************************************************************)
\* The number written by a sequence of digits, read left to right
RECURSIVE Decimal(_, _)
Decimal(ds, acc) ==
    IF ds = <<>> THEN acc ELSE Decimal(Tail(ds), 10 * acc + DigitVal(Head(ds)))

DigitsOf(s) == SelectSeq(s, LAMBDA c : c \in {"1", "2"})

IsSep(c) == c = " " \/ c = NBSP

\* Only digits, grouped by single space or non-breaking-space separators
Grouped(s) ==
    /\ s # <<>>
    /\ \A i \in 1..Len(s) : s[i] \in {"1", "2"} \/ IsSep(s[i])
    /\ ~IsSep(s[1]) /\ ~IsSep(s[Len(s)])
    /\ \A i \in 1..(Len(s) - 1) : ~(IsSep(s[i]) /\ IsSep(s[i + 1]))

\* A non-empty unit suffix: no digit and no whitespace
IsUnit(s) == s # <<>> /\ \A i \in 1..Len(s) : s[i] \notin {"1", "2"} /\ ~IsSep(s[i])

\* name is label without its last character
IsBaseName(name, label) ==
    IF label = <<>> THEN name = <<>> ELSE Append(name, label[Len(label)]) = label

\* C6: a raw value of digits only, optionally grouped by space or
\* non-breaking-space separators, is returned as the integer its digits
\* write, under the label without its trailing separator and with no unit.
C6_PureDigits ==
    (result # None /\ Grouped(value))
        => /\ result[1].exc = ""
           /\ result[1].isInt
           /\ result[1].num = Decimal(DigitsOf(value), 0)
           /\ IsBaseName(result[1].key, key)

C6_Witness ==
    /\ result # None /\ Grouped(value)
    /\ \E i \in 1..Len(value) : value[i] = NBSP
    /\ result[1].isInt /\ result[1].num > 100

\* C7: digit groups followed by a non-empty unit suffix without digit or
\* whitespace give the integer of the digit groups under the field name
\* '{base} ({unit})'.
C7_DigitsAndUnit ==
    result # None =>
        \A a \in 1..Len(value), b \in 1..Len(value) :
            (/\ a <= b /\ b <= a + 1 /\ b < Len(value)
             /\ Grouped(SubSeq(value, 1, a))
             /\ (b = a + 1 => IsSep(value[b]))
             /\ IsUnit(SubSeq(value, b + 1, Len(value))))
            => /\ result[1].exc = ""
               /\ result[1].isInt
               /\ result[1].num = Decimal(DigitsOf(SubSeq(value, 1, a)), 0)
               /\ \E base \in {SubSeq(result[1].key, 1, n) : n \in 0..Len(result[1].key)} :
                     /\ IsBaseName(base, key)
                     /\ result[1].key =
                            base \o <<" ", "(">> \o SubSeq(value, b + 1, Len(value)) \o <<")">>

C7_Witness ==
    /\ result # None /\ value = <<"1", " ", "2", "k">> /\ key = <<"k", ":">>
    /\ result[1].isInt /\ result[1].num = 12
    /\ result[1].key = <<"k", " ", "(", "k", ")">>

\* C8: _clean_key_value never raises; a raw value that does not match the
\* numeric pattern, in particular one without any digit, is returned as a
\* string with every non-breaking space replaced by a space, under the base
\* field name.
C8_Total ==
    result # None =>
        /\ result[1].exc = ""
        /\ (ReMatch(value) = None \/ DigitsOf(value) = <<>>)
              => /\ ~result[1].isInt
                 /\ Len(result[1].str) = Len(value)
                 /\ \A i \in 1..Len(value) :
                       result[1].str[i] = IF value[i] = NBSP THEN " " ELSE value[i]
                 /\ IsBaseName(result[1].key, key)

C8_Witness ==
    /\ result # None /\ key = <<>>
    /\ \E i \in 1..Len(value) : value[i] = NBSP
    /\ \E i \in 1..Len(value) : value[i] \in {"1", "2"}
    /\ ReMatch(value) = None
    /\ ~result[1].isInt /\ result[1].exc = ""

(***************************************************************************)
(* Further properties of one page object (specification Spec)              *)
(***************************************************************************)
\* The cells of the table pair up and a description block has its inner div:
\* parse gets past the table to the optional blocks and past them
WellFormedAd(doc) ==
    /\ doc.title # None /\ doc.table # None
    /\ Len(doc.table[1]) % 2 = 0
    /\ doc.description # None => doc.description[1] # None

\* C11: when the markup of a fetched ad has the title block and the attribute
\* table (its cells in pairs) but lacks the features, the description or the
\* other-information block, parse does not raise and stores a record whose
\* features / other are empty and whose description is omitted, for each block
\* that is missing.  Stated of every call that parses the markup.
C11_ParseStep ==
    (/\ obj # None /\ obj'[1].cls = "AdPage" /\ obj'[1].parses > obj[1].parses
     /\ WellFormedAd(obj'[1].html[1])
     /\ \/ obj'[1].html[1].features = None
        \/ obj'[1].html[1].description = None
        \/ obj'[1].html[1].other = None)
    => /\ call'.exc = ""
       /\ obj'[1].data # None
       /\ obj'[1].html[1].features = None => obj'[1].data[1].features = <<>>
       /\ obj'[1].html[1].other = None => obj'[1].data[1].other = <<>>
       /\ obj'[1].html[1].description = None => obj'[1].data[1].description = None
       /\ obj'[1].html[1].features # None => obj'[1].data[1].features # <<>>

AllAnchors(doc) == \A i \in 1..Len(doc.containers) : doc.containers[i] # None

\* C12: for a fetched results page with N result containers that each hold an
\* anchor, ads yields exactly N AdPage objects, their urls the hrefs in
\* document order, each with the results page's brand and model; for N = 0
\* it yields nothing.  Stated of every next() on the generator.
C12_AdsStep ==
    (/\ gen # None /\ gen' # None /\ gen' # gen
     /\ gen'[1].kind = "ads" /\ call'.op = "next" /\ ~obj'[1].direct)
    => LET o == obj'[1]
           y == gen'[1].yielded
           n == Len(y)
       IN  \/ /\ call'.exc = ""
              /\ n = Len(gen[1].yielded) + 1
              /\ SubSeq(y, 1, n - 1) = gen[1].yielded
              /\ o.html # None /\ AllAnchors(o.html[1])
              /\ n <= Len(o.html[1].containers)
              /\ y[n].cls = "AdPage"
              /\ y[n].url = o.html[1].containers[n][1]
              /\ y[n].brand = o.brand /\ y[n].model = o.model
           \/ /\ call'.exc = "StopIteration"
              /\ y = gen[1].yielded
              /\ gen'[1].state = "done"
              /\ n = IF o.html = None THEN 0 ELSE Len(o.html[1].containers)
           \/ /\ IsError(call'.exc)
              /\ y = <<>>
              /\ gen'[1].state = "done"
              /\ o.links = None

C12_Ads == [][C12_AdsStep]_vars

C12_Witness ==
    /\ gen # None /\ gen[1].kind = "ads" /\ gen[1].state = "done"
    /\ Len(gen[1].yielded) = 2
    /\ gen[1].yielded[1].url = "/ad/1" /\ gen[1].yielded[2].url = "/ad/2"
    /\ ~obj[1].direct
    /\ call = [op |-> "next", exc |-> "StopIteration"]

\* C13: fetching is lazy: constructing a page fetches nothing, reading pages
\* or ads and enumerating them fetches nothing for the yielded objects, and
\* an object's fetch happens only in a call of download, parse or one of its
\* accessors (for pages and ads: when the generator is advanced).
C13_LazyStep ==
    /\ (obj' # None /\ call'.op = "new")
          => obj'[1].fetches = 0 /\ obj'[1].html = None /\ obj'[1].status = None
    /\ (obj # None /\ call'.op \in {"pages", "ads"}) => obj' = obj
    /\ gen' # None
          => \A i \in 1..Len(gen'[1].yielded) :
                /\ gen'[1].yielded[i].fetches = 0
                /\ gen'[1].yielded[i].html = None /\ gen'[1].yielded[i].status = None
    /\ (obj # None /\ obj'[1].fetches > obj[1].fetches)
          => call'.op \in {"download", "parse", "data", "page_count", "next"}

C13_Lazy == [][C13_LazyStep]_vars

C13_Witness ==
    /\ gen # None /\ gen[1].state = "suspended" /\ Len(gen[1].yielded) = 1
    /\ obj[1].fetches = 1 /\ obj[1].html # None
    /\ gen[1].yielded[1].fetches = 0 /\ gen[1].yielded[1].html = None

\* A successful parse() of an AdPage that already holds a record parsed from
\* the same markup (the object has fetched once)
Reparse ==
    /\ obj # None /\ obj[1].cls = "AdPage" /\ obj[1].data # None
    /\ obj'[1].parses > obj[1].parses
    /\ obj'[1].fetches = 1 /\ obj'[1].html = obj[1].html
    /\ call'.exc = ""

\* C15 as stated: parsing the same ad markup a second time yields a record
\* identical to the first in every field.
C15_IdenticalStep == Reparse => obj'[1].data = obj[1].data

C15_Identical == [][C15_IdenticalStep]_vars

\* C15 amended: parsing the same ad markup a second time yields a record
\* identical to the first in every field except scraped, which holds the time
\* of the second parse.
C15_IdempotentStep ==
    Reparse => /\ obj'[1].data # None
               /\ [obj'[1].data[1] EXCEPT !.scraped = 0] = [obj[1].data[1] EXCEPT !.scraped = 0]
               /\ obj'[1].data[1].scraped = now

C15_Idempotent == [][C15_IdempotentStep]_vars

C15_Witness ==
    /\ obj # None /\ obj[1].cls = "AdPage" /\ obj[1].html = Some(AdComplete)
    /\ obj[1].parses = 2 /\ obj[1].fetches = 1 /\ ~obj[1].raised
    /\ obj[1].data # None /\ obj[1].data[1].scraped = 1
    /\ call = [op |-> "parse", exc |-> ""]

\* The value the generator's body reads from its object: _page_count for
\* pages, _links for ads
Stored(o) == IF o.cls = "ModelSearch" THEN o.page_count ELSE o.links

\* C18 as stated: once pages / ads of a page object has been iterated to the
\* end, a later iteration on the same object produces no element.
C18_ConsumedOncePerObject ==
    (gen # None /\ gen[1].prev # None) => gen[1].yielded = <<>>

\* C18 amended: each generator read from pages / ads is consumed once (after
\* it has ended, next() yields nothing more).  Reading the property again on
\* the same object gives a new generator: it produces the same elements again
\* in the same order, and when the object's page count / links are stored it
\* reuses them without fetching or parsing again.
C18_GeneratorStep ==
    (gen # None /\ gen' # None /\ call'.op = "next" /\ now' = now)
    => /\ gen[1].state = "done"
            => call'.exc = "StopIteration" /\ gen' = gen /\ obj' = obj
       /\ (gen[1].prev # None /\ Stored(obj[1]) # None)
            => obj'[1].fetches = obj[1].fetches /\ obj'[1].parses = obj[1].parses
       /\ (gen[1].prev # None /\ gen[1].prev[1] # <<>> /\ ~obj'[1].direct)
            => LET y == gen'[1].yielded
                   p == gen[1].prev[1]
               IN  /\ ~IsError(call'.exc)
                   /\ Len(y) <= Len(p) /\ y = SubSeq(p, 1, Len(y))
                   /\ (call'.exc = "" /\ gen[1].state # "done")
                         => Len(y) = Len(gen[1].yielded) + 1
                   /\ call'.exc = "StopIteration" => y = p

C18_Generator == [][C18_GeneratorStep]_vars

C18_Witness ==
    /\ gen # None /\ gen[1].kind = "ads" /\ gen[1].state = "done"
    /\ gen[1].prev # None /\ Len(gen[1].prev[1]) = 2
    /\ gen[1].yielded = gen[1].prev[1]
    /\ obj[1].fetches = 1 /\ obj[1].parses = 1
    /\ call = [op |-> "next", exc |-> "StopIteration"]

RecordKeys ==
    {"title", "details", "features", "description", "other",
     "brand", "model", "url", "scraped"}

\* C19: an AdPage never exposes a partial record: _data is absent or a record
\* with title, details, features, other, brand, model, url and scraped all
\* set (description set or omitted), and a call that raises leaves _data as
\* it was before the call.
C19_RecordStep ==
    obj' # None =>
       /\ obj'[1].data # None
            => /\ obj'[1].cls = "AdPage"
               /\ DOMAIN obj'[1].data[1] = RecordKeys
               /\ obj'[1].data[1].brand = obj'[1].brand
               /\ obj'[1].data[1].model = obj'[1].model
               /\ obj'[1].data[1].url = obj'[1].url
               /\ obj'[1].data[1].scraped \in 0..now'
       /\ (obj # None /\ now' = now /\ IsError(call'.exc))
            => obj'[1].data = obj[1].data

C19_Record == [][C19_RecordStep]_vars

C19_Witness ==
    /\ obj # None /\ obj[1].cls = "AdPage"
    /\ obj[1].data # None /\ obj[1].data[1].title = <<"k">>
    /\ obj[1].html # None /\ LacksMandatory("AdPage", obj[1].html[1])
    /\ call = [op |-> "parse", exc |-> "AttributeError"]

\* C20: markup is present only if the most recently recorded status is a
\* success status, and a derived result (_data, _links, _page_count) is
\* present only if markup is present.
C20_MarkupOnlyOnSuccess ==
    obj # None =>
       /\ obj[1].html # None => (obj[1].status # None /\ Is2xx(obj[1].status[1]))
       /\ (obj[1].data # None \/ obj[1].links # None \/ obj[1].page_count # None)
             => obj[1].html # None

(***************************************************************************)
(* Further properties of _clean_key_value (specification SpecClean)        *)
(***************************************************************************)
\* C16: whenever _clean_key_value returns an integer, the integer equals all
\* the digit characters of the raw value concatenated in order (the text
\* before the digit groups holds no digit).
C16_AllDigits ==
    (result # None /\ result[1].exc = "" /\ result[1].isInt)
        => result[1].num = Decimal(DigitsOf(value), 0)

(***************************************************************************)
(* Two page objects side by side (specification SpecPair).                 *)
(*                                                                         *)
(* _html, status, _data, _links and _page_count are declared as class      *)
(* attributes with value None; an object gets an attribute of its own at   *)
(* the first `self.x = ...`.  Here an object record holds the object's own *)
(* attributes (None: it has none yet) and klass holds the class's.         *)
(***************************************************************************)
MaxPairCalls == 2

ClassAttrs == [html |-> None, status |-> None, data |-> None, links |-> None,
               page_count |-> None]

\* Attribute lookup: the object's own attribute, else the class attribute
Resolve(o, k) ==
    [o EXCEPT !.html = IF @ = None THEN k.html ELSE @,
              !.status = IF @ = None THEN k.status ELSE @,
              !.data = IF @ = None THEN k.data ELSE @,
              !.links = IF @ = None THEN k.links ELSE @,
              !.page_count = IF @ = None THEN k.page_count ELSE @]

\* Mutant of Store: markup and status are assigned to the class
\* (BasePage._html = r.text) instead of the object
StoreOnClass(p, i, o) ==
    [p EXCEPT !.objs[i] = [o EXCEPT !.html = p.objs[i].html, !.status = p.objs[i].status],
              !.klass.html = o.html, !.klass.status = o.status]

\* `self.x = ...` in a method called on object i: the object's own attribute
Store(p, i, o) == [p EXCEPT !.objs[i] = o]

Siblings ==
    {AdPageInit("/ad/1", "bmw", "x5"), AdPageInit("/ad/2", "bmw", "x5"),
     ResultsPageInit("http://host/results/page1", "bmw", "x5")}

InitPair ==
    /\ \E o1 \in Siblings, o2 \in Siblings :
          pair = [objs |-> <<o1, o2>>, klass |-> ClassAttrs,
                  who |-> 0, op |-> "", exc |-> "", resp |-> None, n |-> 0]
    /\ obj = None /\ gen = None /\ call = [op |-> "", exc |-> ""] /\ now = 0
    /\ key = <<>> /\ value = <<>> /\ result = None
    /\ crawl = None

\* A method of object i has run against response r
PairCalled(i, op, r, out) ==
    pair' = [Store(pair, i, After(out.obj, out.exc, op \in {"download", "parse"}))
                EXCEPT !.who = i, !.op = op, !.exc = out.exc, !.resp = Some(r), !.n = @ + 1]

PairDownload ==
    /\ pair.n < MaxPairCalls
    /\ \E i \in 1..2 : \E r \in Responses(pair.objs[i].cls) :
          PairCalled(i, "download", r, download(Resolve(pair.objs[i], pair.klass), r))
    /\ UNCHANGED <<pageVars, cleanVars, crawl>>

PairParse ==
    /\ pair.n < MaxPairCalls
    /\ \E i \in 1..2 : \E r \in Responses(pair.objs[i].cls) :
          PairCalled(i, "parse", r, parse(Resolve(pair.objs[i], pair.klass), r, now))
    /\ UNCHANGED <<pageVars, cleanVars, crawl>>

PairData ==
    /\ pair.n < MaxPairCalls
    /\ \E i \in 1..2 : \E r \in Responses(pair.objs[i].cls) :
          /\ pair.objs[i].cls = "AdPage"
          /\ PairCalled(i, "data", r, data(Resolve(pair.objs[i], pair.klass), r, now))
    /\ UNCHANGED <<pageVars, cleanVars, crawl>>

NextPair == PairDownload \/ PairParse \/ PairData

SpecPair == InitPair /\ [][NextPair]_vars

\* C17: no mutable state is shared between page objects: a call on one page
\* object, whether it returns or raises, leaves the markup, status and
\* derived result of the other object as they were; and whatever happened
\* to its sibling, an untouched ad that is answered with well-formed markup
\* is extracted.
C17_FrameStep ==
    pair'.n > pair.n =>
        LET i == pair'.who
            j == 3 - i
            before == Resolve(pair.objs[j], pair.klass)
            after  == Resolve(pair'.objs[j], pair'.klass)
            self   == Resolve(pair'.objs[i], pair'.klass)
            r      == pair'.resp[1]
        IN  /\ after = before
            /\ (/\ pair'.op = "data" /\ pair.objs[i].fetches = 0
                /\ ~r.failed /\ r.status_code = 200 /\ WellFormedAd(r.text))
                  => /\ pair'.exc = ""
                     /\ self.html = Some(r.text)
                     /\ self.data # None /\ self.data[1].url = self.url

C17_Frame == [][C17_FrameStep]_vars

C17_Witness ==
    /\ pair.n = 2 /\ pair.who = 2
    /\ pair.objs[1].cls = "AdPage" /\ pair.objs[1].url = "/ad/1"
    /\ pair.objs[1].raised /\ pair.objs[1].html = Some(AdOdd) /\ pair.objs[1].data = None
    /\ pair.objs[2].cls = "AdPage" /\ pair.objs[2].url = "/ad/2"
    /\ pair.op = "data" /\ pair.exc = ""
    /\ pair.objs[2].html = Some(AdComplete) /\ pair.objs[2].data # None

(***************************************************************************)
(* The full crawl (specification SpecCrawl): the caller's loop             *)
(*     for page in search.pages:                                           *)
(*         for ad in page.ads:                                             *)
(*             records.append(ad.data)                                     *)
(* against a site that serves a search page, up to two results pages and   *)
(* their ads.  An exception leaves the loop.  ok records that every fetch  *)
(* so far was answered 200 with the site's markup and every ad's markup    *)
(* was well formed.                                                        *)
(***************************************************************************)
MaxLinks == 2

SearchOne == Doc(None, None, None, None, None, <<>>, Some(<<"1">>))

AdHref(i, k) == "/ad/" \o ToString(i) \o "-" \o ToString(k)

\* The results page number i of a site: n containers, each with its anchor
ResultsDoc(i, n) ==
    Doc(None, None, None, None, None, [k \in 1..n |-> Some(AdHref(i, k))], None)

Ok200(doc) == [failed |-> FALSE, status_code |-> 200, text |-> doc]

Unavailable ==
    {[failed |-> TRUE, status_code |-> 0, text |-> EmptyDoc],
     [failed |-> FALSE, status_code |-> 404, text |-> EmptyDoc]}

Sites ==
    [search : {SearchOne, SearchTwo, SearchNeg, SearchText, EmptyDoc},
     links  : (0..MaxLinks) \X (0..MaxLinks)]

InitCrawl ==
    /\ \E site \in Sites, url \in SearchUrls, brand \in Brands, model \in Models :
          crawl = [site |-> site,
                   search |-> ModelSearchInit(url, brand, model),
                   sgen |-> NewGenerator("pages"),
                   page |-> None, agen |-> None,
                   records |-> <<>>, ok |-> TRUE, stage |-> "pages"]
    /\ obj = None /\ gen = None /\ call = [op |-> "", exc |-> ""] /\ now = 0
    /\ key = <<>> /\ value = <<>> /\ result = None
    /\ pair = None

\* The call issued a GET
Fetched(before, after) == after.fetches > before.fetches

\* `for page in search.pages`: next() on the pages generator
CrawlNextPage ==
    /\ crawl.stage = "pages"
    /\ \E r \in {Ok200(crawl.site.search)} \cup Unavailable :
          LET out == PagesNext(crawl.search, crawl.sgen, r)
              ok  == crawl.ok /\ (Fetched(crawl.search, out.obj) => r = Ok200(crawl.site.search))
          IN  crawl' = [crawl EXCEPT
                  !.search = out.obj, !.sgen = out.gen, !.ok = ok,
                  !.page = IF out.exc = "" THEN Some(out.gen.yielded[Len(out.gen.yielded)])
                           ELSE None,
                  !.agen = IF out.exc = "" THEN Some(NewGenerator("ads")) ELSE None,
                  !.stage = IF out.exc = "" THEN "ads"
                            ELSE IF out.exc = "StopIteration" THEN "done" ELSE "raised"]
    /\ UNCHANGED <<pageVars, cleanVars, pair>>

\* `for ad in page.ads`: next() on the ads generator of the current page
CrawlNextAd ==
    /\ crawl.stage = "ads"
    /\ LET i    == Len(crawl.sgen.yielded)
           good == Ok200(ResultsDoc(i, crawl.site.links[i]))
       IN  \E r \in {good, Ok200(ResultsBad)} \cup Unavailable :
              LET out == AdsNext(crawl.page[1], crawl.agen[1], r)
                  ok  == crawl.ok /\ (Fetched(crawl.page[1], out.obj) => r = good)
              IN  crawl' = [crawl EXCEPT
                      !.page = Some(out.obj), !.agen = Some(out.gen), !.ok = ok,
                      !.stage = IF out.exc = "" THEN "data"
                                ELSE IF out.exc = "StopIteration" THEN "pages" ELSE "raised"]
    /\ UNCHANGED <<pageVars, cleanVars, pair>>

\* `records.append(ad.data)` for the ad just yielded
CrawlReadData ==
    /\ crawl.stage = "data"
    /\ LET ad == crawl.agen[1].yielded[Len(crawl.agen[1].yielded)]
       IN  \E r \in {Ok200(d) : d \in {AdComplete, AdBare, AdOdd, AdNoTable}} \cup Unavailable :
              LET out == data(ad, r, now)
                  ok  == crawl.ok /\ (Fetched(ad, out.obj) =>
                            (r \notin Unavailable /\ WellFormedAd(r.text)))
              IN  crawl' = [crawl EXCEPT
                      !.ok = ok,
                      !.records = IF out.exc = "" THEN Append(@, out.obj.data) ELSE @,
                      !.stage = IF out.exc = "" THEN "ads" ELSE "raised"]
    /\ UNCHANGED <<pageVars, cleanVars, pair>>

NextCrawl == CrawlNextPage \/ CrawlNextAd \/ CrawlReadData

SpecCrawl == InitCrawl /\ [][NextCrawl]_vars

\* The listing urls of pages i..P of the site, in page then document order
RECURSIVE ListingUrls(_, _, _)
ListingUrls(links, i, P) ==
    IF i > P THEN <<>>
    ELSE [k \in 1..links[i] |-> AdHref(i, k)] \o ListingUrls(links, i + 1, P)

====
